---- MODULE Spec2Model ----
(***************************************************************************)
(* Test-cycle controller of the mechanical tester                          *)
(* (src/mechanical_tester.py): the operator command loop, the test cycle   *)
(* state machine (homing, baseline, descent with event detection, return,  *)
(* export decision) and the shutdown signal handler.                       *)
(*                                                                         *)
(* Units.  Positions are in tenths of a millimetre, load readings in       *)
(* hundredths of a load unit (the raw register value, before the division  *)
(* by SCALE_FACTOR).  The baseline is the exact mean of the successful     *)
(* readings and is kept as a fraction [num, den] in lowest terms; a        *)
(* "change" (reading minus baseline) is kept as its numerator over the     *)
(* baseline's denominator, so that every comparison of the code is made    *)
(* exactly: change > T  <=>  chNum > T * den.                              *)
(***************************************************************************)
EXTENDS Integers, Sequences, FiniteSets, TLC

\* ---------------------------------------------------------------- constants
\* mechanical_tester.py:25-39 (positions x10, loads x100)
STROKE_MM == 1460
SOFT_MARGIN_MM == 0
HOME_POSITION_MM == 500
TEST_SPEED_PWM == 200
MAX_TEST_POSITION_MM == 1000
STRESS_DETECTION_THRESHOLD == 500
STRESS_ZERO_THRESHOLD == 50
BASELINE_SAMPLES == 10
\* move_to_position: default speed (line 163) and tolerance (line 172)
DEFAULT_SPEED_PWM == 300
HOME_TOLERANCE == 10
\* control_loop: the magnitude floor (line 26), the position deadband in tenths
\* of a millimetre (line 190) and the proportional gain (line 101); a command is
\* held in tenths of a PWM unit, which is the gain times tenths of a millimetre
PWM_DEADBAND == 10
POSITION_DEADBAND == 5
Kp == 20
\* src/position_control.py: the initial limit (line 38), the largest limit
\* set_max_pwm accepts (line 50) and its ramp-down step (line 55)
RAMP_START_LIMIT == 500
MAX_PWM == 1000
RAMP_STEP == 100
\* src/strain_logger.py: the capture threshold, in hundredths like the loads
THRESHOLD == 300

\* ------------------------------------------------------------------- bounds
\* cycles started per run, and descent loop iterations per run
MaxCycles == 2
MaxTicks == 3
\* descent loop iterations per run in the specification of long runs
MaxLongTicks == 4
\* descent loop iterations per run in the specification with the control loop
MaxCtlTicks == 1
\* descent loop iterations per run in the end-to-end example
MaxE2ETicks == 4
\* calls of set_max_pwm per run
MaxRampCalls == 2
\* descent loop iterations per run in the specification of differing baselines
MaxDriftTicks == 2
\* iterations of the data logger's capture loop in one run
MaxLogTicks == 4

\* Values the position sensor can show: outside / at the edge of the homing
\* tolerance, just below / at the no-tooth ceiling.
PosGrid == {480, 490, 1000}
\* Raw process readings during the descent: below the baseline, at the
\* baseline, exactly the detection threshold above it, well above it.
ProcessVals == {0, 100, 600, 900}
\* Raw process readings of the long runs: at the baseline, well above it.
LongVals == {100, 900}
\* Values the position sensor can show to the control loop: outside the homing
\* tolerance, just outside it, at the edge of the position deadband around
\* home, inside it, at the ceiling.
CtlGrid == {480, 489, 495, 496, 1000}
\* Raw process readings of the runs with the control loop.
CtlVals == {900}
\* Derivative terms of the controller (Kd = 0.5 times the speed of the rod), in
\* tenths of a PWM unit: retracting, at rest, extending.
DTerms == {-50, 0, 50}
\* The end-to-end example: positions on the way from home to the tooth, and the
\* raw readings of the process and peak-hold registers there, the baseline being
\* 1.00: 9.00 at 70 mm, 1.20 at 78 mm, in between a load inside neither band.
E2EGrid == {480, 500, 700, 740, 780}
Load(p) == CASE p = 700 -> 900 [] p = 740 -> 500 [] p = 780 -> 120 [] OTHER -> 100
PeakLoad(p) == IF p >= 700 THEN 900 ELSE 100
\* Arguments of set_max_pwm: the ends of its range, limits a multiple of the
\* step apart and not, and one outside the range.
RampInputs == {0, 50, 200, 250, 500, 1000, 1100}
\* Targets a caller can hand to move_to_position: below, at the ends of, inside
\* and beyond the stroke.
MoveTargets == {-10, 0, 500, 1460, 1500}
\* Values the position sensor can show on a descent that runs to the end of the
\* stroke: home, the no-tooth ceiling, the stroke end.
EndGrid == {490, 1000, 1460}
\* Raw process readings of the data logger: below, exactly at and above its
\* threshold.
LogVals == {100, 300, 500}
\* Raw readings of the peak-hold register.
PeakVals == {900}
\* Raw process readings while the baseline is taken from an unsteady gauge.
BaseVals == {100, 130}
\* Raw process readings of the descents that follow such a baseline.
DriftVals == {600}
\* Raw process readings while the baseline is taken (unloaded gauge).
BaselineVals == {100}

\* A register read: ok = FALSE is the transport error (None in the code).
ReadResults(vals) == {[ok |-> FALSE, v |-> 0]} \cup {[ok |-> TRUE, v |-> x] : x \in vals}

Commands == {"test", "home", "pos", "help", "other", "quit"}

VARIABLES
  pc,                \* position of the main task (run_continuous_testing and callees)
  ret,               \* who called move_to_position: "cycle_home", "cycle_return", "cmd_home"
  connected,         \* tester.modbus_client is set
  state,             \* self.state (TestState)
  cycle,             \* self.cycle
  test_data,         \* self.test_data
  max_stress_seen,   \* self.max_stress_seen
  baseline_stress,   \* self.baseline_stress, [num, den]
  shutdown,          \* self._shutdown
  output_limits,     \* self.pos_pid.output_limits, <<lo, hi>>
  setpoint,          \* self.pos_pid.setpoint
  IO_PWM,            \* magnitude last written to the actuator
  IO_DIR,            \* direction last written to the actuator
  pos,               \* what get_position() returns now
  clock,             \* descent loop iterations so far (the source of timestamps)
  safe_target,       \* move_to_position local
  bl,                \* establish_baseline locals: [i, sum, cnt]
  loc,               \* perform_test_cycle locals (the four descent flags)
  hist,              \* history of the current invocation of perform_test_cycle
  exportIdx,         \* cycle index used by each export_test_data invocation, in order
  startIdx,          \* cycle index shown by each started cycle, in order
  abortedAt,         \* which started cycles (positions in startIdx) aborted on the baseline
  ctl,               \* position of the control_loop task: "off", "sleep", "write", "exited"
  tick,              \* the control loop's tick: its local pwm_signed and what it observed
  ramp,              \* set_max_pwm of the position-control programs and their controller's limits
  data_logger        \* ModbusDataLogger of src/strain_logger.py and the locals of capture_cycle

vars == <<pc, ret, connected, state, cycle, test_data, max_stress_seen,
          baseline_stress, shutdown, output_limits, setpoint, IO_PWM, IO_DIR,
          pos, clock, safe_target, bl, loc, hist, exportIdx, startIdx,
          abortedAt, ctl, tick, ramp, data_logger>>

ctlVars == <<ctl, tick>>
sideVars == <<ramp, data_logger>>
actuatorVars == <<output_limits, setpoint, IO_PWM, IO_DIR>>
cycleVars == <<state, cycle, test_data, max_stress_seen, baseline_stress>>
histVars == <<hist, exportIdx, startIdx, abortedAt>>

\* ------------------------------------------------------------------ helpers
Abs(x) == IF x < 0 THEN -x ELSE x
Max(a, b) == IF a >= b THEN a ELSE b
Min(a, b) == IF a <= b THEN a ELSE b

RECURSIVE GCD(_, _)
GCD(a, b) == IF b = 0 THEN a ELSE GCD(b, a % b)

\* mutant: the sum is divided by the number of reads issued
MeanMut(sum, cnt) == [num |-> sum, den |-> BASELINE_SAMPLES]

\* sum(readings) / len(readings), in lowest terms (line 139)
Mean(sum, cnt) == [num |-> sum \div GCD(sum, cnt), den |-> cnt \div GCD(sum, cnt)]

\* mutant: the baseline is not subtracted
get_stress_changeMut(current_stress) == current_stress * baseline_stress.den

\* get_stress_change (line 146): numerator of reading - baseline over baseline.den
get_stress_change(current_stress) == current_stress * baseline_stress.den - baseline_stress.num

\* safe_target of move_to_position (line 166)
Clamp(target_mm) == Max(SOFT_MARGIN_MM, Min(target_mm, STROKE_MM - SOFT_MARGIN_MM))

\* the locals of establish_baseline at its entry (line 130): the loop index,
\* sum and length of `readings`, and the results of the reads issued so far
InitBl == [i |-> 0, sum |-> 0, cnt |-> 0, reads |-> <<>>]

InitLocals == [stress_returned_to_zero |-> FALSE, no_tooth_detected |-> FALSE,
               tooth_contacted |-> FALSE, max_stress_change |-> 0]

InitHist == [entry |-> 0, active |-> FALSE, log |-> <<>>, exports |-> 0,
             exported |-> <<>>, contactLogs |-> 0, baselineFailed |-> FALSE,
             descended |-> FALSE, returned |-> FALSE, contactAt |-> 0,
             completionLogs |-> 0, completionAt |-> 0, peakReset |-> "none",
             lastTick |-> "none", lastRead |-> <<0, 0>>,
             cycleBaseline |-> [num |-> 0, den |-> 1]]

\* the control loop's latest tick, before the first one: the command before the
\* magnitude deadband and pwm_signed after it (in tenths), whether the position
\* deadband applied, whether the tick ran between the two writes of a
\* setpoint/limit update, and the upper output limit in force when it computed
InitTick == [raw |-> 0, pwm_signed |-> 0, dead |-> FALSE, torn |-> FALSE,
             limit |-> 0]

\* set_max_pwm before its first call: the limits the position-control programs
\* start with, no call made, nothing written
InitRamp == [pc |-> "idle", limit |-> RAMP_START_LIMIT, pwm |-> 0,
             from |-> RAMP_START_LIMIT, valid |-> FALSE, writes |-> <<>>,
             output_limits |-> <<-RAMP_START_LIMIT, RAMP_START_LIMIT>>, calls |-> 0]

\* ModbusDataLogger after __init__ (src/strain_logger.py lines 42-44), run
\* about to call capture_cycle: the cycle index, the locals data and capturing,
\* the number of loop iterations so far (the source of timestamps), the result
\* of every pair of reads since the peak reset, what the last iteration did,
\* and every invocation of export_data with its index and its data
InitLogger == [pc |-> "reset", cycle |-> 0, data |-> <<>>, capturing |-> FALSE,
               t |-> 0, reads |-> <<>>, last |-> "none", exports |-> <<>>]

\* a step of the main task: the control loop is not in the middle of a tick
\* (both are coroutines of one event loop), and its locals are not touched
MainStep == ctl # "write" /\ UNCHANGED ctlVars /\ UNCHANGED sideVars

TestStates == {"idle", "moving_to_home", "descending", "returning_home", "resetting"}

\* -------------------------------------------------------------------- Init
\* __init__ / _init_actuator (lines 69-109): limits (0,0), setpoint = position
InitOn(grid) ==
  /\ pc = "connect"
  /\ ret = "none"
  /\ connected = FALSE
  /\ state = "idle"
  /\ cycle = 0
  /\ test_data = <<>>
  /\ max_stress_seen = 0
  /\ baseline_stress = [num |-> 0, den |-> 1]
  /\ shutdown = FALSE
  /\ output_limits = <<0, 0>>
  /\ pos \in grid
  /\ setpoint = pos
  /\ IO_PWM = 0
  /\ IO_DIR = 0
  /\ clock = 0
  /\ safe_target = 0
  /\ bl = InitBl
  /\ loc = InitLocals
  /\ hist = InitHist
  /\ exportIdx = <<>>
  /\ startIdx = <<>>
  /\ abortedAt = {}
  /\ ctl = "off"
  /\ tick = InitTick
  /\ ramp = InitRamp
  /\ data_logger = InitLogger

Init == InitOn(PosGrid)

\* ---------------------------------------------------------------- actuator
\* stop_actuator (lines 112-114)
StopActuator ==
  /\ IO_PWM' = 0
  /\ IO_DIR' = 0
  /\ output_limits' = <<0, 0>>

\* move_to_position up to the write of the limits (lines 160-166), called with
\* the default speed
MoveEntry(target_mm, caller) ==
  /\ output_limits' = <<-DEFAULT_SPEED_PWM, DEFAULT_SPEED_PWM>>
  /\ safe_target' = Clamp(target_mm)
  /\ setpoint' = setpoint
  /\ ret' = caller
  /\ pc' = "mtp_entry"

\* the setpoint follows the limits, with no suspension point between (line 167)
MoveSetpoint ==
  /\ pc = "mtp_entry"
  /\ setpoint' = safe_target
  /\ pc' = "mtp_wait"
  /\ UNCHANGED <<ret, connected, cycleVars, shutdown, output_limits, IO_PWM,
                 IO_DIR, pos, clock, safe_target, bl, loc, histVars>>
  /\ MainStep

\* mutant: the wait ends 2 mm from the target
MoveWaitCondMut == Abs(pos - safe_target) > 2 * HOME_TOLERANCE /\ ~shutdown

\* the homing wait's condition (line 172)
MoveWaitCond == Abs(pos - safe_target) > HOME_TOLERANCE /\ ~shutdown

\* mutant: the limits of the move stay in force after it
MoveStopLimitsMut == output_limits

\* the limits written when the wait is over (line 176)
MoveStopLimits == <<0, 0>>

\* one evaluation of the wait (lines 172-178): sleep again, or stop the actuator
MoveWait ==
  /\ pc = "mtp_wait"
  /\ IF MoveWaitCond
       THEN UNCHANGED <<pc, output_limits, IO_PWM, IO_DIR>>
       ELSE /\ output_limits' = MoveStopLimits
            /\ IO_PWM' = 0
            /\ IO_DIR' = 0
            /\ pc' = "mtp_hold"
  /\ UNCHANGED <<ret, connected, cycleVars, shutdown, setpoint, pos, clock,
                 safe_target, bl, loc, histVars>>
  /\ MainStep

\* The position sensor moves to a neighbouring value of the grid.  The main
\* task calls get_position (line 111) only in the homing wait and in the
\* descent loop, so the value is let change only where it is read.
ActuatorMoveOn(grid) ==
  /\ pc \in {"mtp_wait", "descent"}
  /\ \E p \in grid :
       /\ p # pos
       /\ \A q \in grid : ~(Min(p, pos) < q /\ q < Max(p, pos))
       /\ pos' = p
  /\ UNCHANGED <<pc, ret, connected, cycleVars, shutdown, actuatorVars, clock,
                 safe_target, bl, loc, histVars>>
  /\ MainStep

ActuatorMove == ActuatorMoveOn(PosGrid)

\* ------------------------------------------------------------ main and shell
\* mutant: the session goes on without a connection
AfterConnectMut(ok) == "loop"

\* `if not modbus_client.connected: return` (lines 423-425)
AfterConnect(ok) == IF ok THEN "loop" ELSE "terminated"

\* main (lines 420-434): connect; on failure return, else create the control
\* task and start the command loop
Connect ==
  /\ pc = "connect"
  /\ \E ok \in BOOLEAN :
       /\ connected' = ok
       /\ pc' = AfterConnect(ok)
       /\ ctl' = IF ok THEN "sleep" ELSE "off"
  /\ UNCHANGED <<ret, cycleVars, shutdown, actuatorVars, pos, clock,
                 safe_target, bl, loc, histVars, tick, sideVars>>

\* while not self._shutdown (line 356); the finally clause (line 395) on exit
LoopCheck ==
  /\ pc = "loop"
  /\ IF shutdown
       THEN StopActuator /\ pc' = "terminated"
       ELSE pc' = "input" /\ UNCHANGED <<output_limits, IO_PWM, IO_DIR>>
  /\ UNCHANGED <<ret, connected, cycleVars, shutdown, setpoint, pos, clock,
                 safe_target, bl, loc, histVars>>
  /\ MainStep

\* mutant: the samples of the cycle before are kept
FreshDataMut == test_data

\* self.test_data = [] (line 208)
FreshData == <<>>

\* perform_test_cycle up to the first wait (lines 205-213)
CycleStart ==
  /\ Len(startIdx) < MaxCycles
  /\ test_data' = FreshData
  /\ max_stress_seen' = 0
  /\ state' = "moving_to_home"
  /\ MoveEntry(HOME_POSITION_MM, "cycle_home")
  /\ loc' = InitLocals
  /\ bl' = InitBl
  /\ hist' = [InitHist EXCEPT !.entry = cycle, !.active = TRUE]
  /\ startIdx' = Append(startIdx, cycle)
  /\ UNCHANGED <<connected, cycle, baseline_stress, shutdown, IO_PWM, IO_DIR,
                 pos, clock, exportIdx, abortedAt>>

\* one operator command (lines 359-388)
Command ==
  /\ pc = "input"
  /\ \E cmd \in Commands :
       CASE cmd = "quit" ->
              /\ StopActuator
              /\ pc' = "terminated"
              /\ UNCHANGED <<ret, connected, cycleVars, shutdown, setpoint, pos,
                             clock, safe_target, bl, loc, histVars>>
         [] cmd = "test" -> CycleStart
         [] cmd = "home" ->
              /\ MoveEntry(HOME_POSITION_MM, "cmd_home")
              /\ UNCHANGED <<connected, cycleVars, shutdown, IO_PWM, IO_DIR, pos,
                             clock, bl, loc, histVars>>
         [] OTHER ->
              /\ pc' = "loop"
              /\ UNCHANGED <<ret, connected, cycleVars, shutdown, actuatorVars, pos,
                             clock, safe_target, bl, loc, histVars>>
  /\ MainStep

\* the 'home' command's move_to_position returns (lines 181-183, 375)
AfterCmdHome ==
  /\ pc = "mtp_hold" /\ ret = "cmd_home"
  /\ pc' = "loop"
  /\ ret' = "none"
  /\ UNCHANGED <<connected, cycleVars, shutdown, actuatorVars, pos, clock,
                 safe_target, bl, loc, histVars>>
  /\ MainStep

\* _shutdown_handler (lines 402-407), at any point of the run: a signal handler
\* runs between two bytecodes of the main thread, a control tick's included
Shutdown ==
  /\ pc # "terminated"
  /\ shutdown' = TRUE
  /\ StopActuator
  /\ UNCHANGED <<pc, ret, connected, cycleVars, setpoint, pos, clock,
                 safe_target, bl, loc, histVars, ctlVars, sideVars>>

\* ------------------------------------------------------------- the baseline
\* the homing move returns; state 2 begins (lines 181-183, 216-217, 130)
AfterHome ==
  /\ pc = "mtp_hold" /\ ret = "cycle_home"
  /\ state' = "resetting"
  /\ bl' = InitBl
  /\ pc' = "baseline"
  /\ ret' = "none"
  /\ UNCHANGED <<connected, cycle, test_data, max_stress_seen, baseline_stress,
                 shutdown, actuatorVars, pos, clock, safe_target, loc, histVars>>
  /\ MainStep

\* one iteration of establish_baseline's loop (lines 132-136), the process
\* register showing one of vals; keep tells whether the result of every read is
\* remembered next to `readings`
BaselineReadOn(vals, keep) ==
  /\ pc = "baseline"
  /\ bl.i < BASELINE_SAMPLES
  /\ \E stress \in ReadResults(vals) :
       bl' = [i |-> bl.i + 1,
              reads |-> IF keep THEN Append(bl.reads, stress) ELSE bl.reads,
              sum |-> IF stress.ok THEN bl.sum + stress.v ELSE bl.sum,
              cnt |-> IF stress.ok THEN bl.cnt + 1 ELSE bl.cnt]
  /\ UNCHANGED <<pc, ret, connected, cycleVars, shutdown, actuatorVars, pos,
                 clock, safe_target, loc, histVars>>
  /\ MainStep

BaselineRead == BaselineReadOn(BaselineVals, FALSE)

\* `if readings` (line 138)
BaselineOk(cnt) == cnt > 0

\* mutant: the abort on a failed baseline is forgotten
AfterBaselineMut(ok) == "reset"

\* where the cycle goes on the result of establish_baseline (lines 217-221)
AfterBaseline(ok) == IF ok THEN "reset" ELSE "loop"

\* establish_baseline returns (lines 138-144) and its locals are gone; the
\* cycle aborts or goes on (lines 217-219)
BaselineDone ==
  /\ pc = "baseline"
  /\ bl.i = BASELINE_SAMPLES
  /\ baseline_stress' = IF BaselineOk(bl.cnt) THEN Mean(bl.sum, bl.cnt) ELSE baseline_stress
  /\ pc' = AfterBaseline(BaselineOk(bl.cnt))
  /\ hist' = IF pc' = "loop"
               THEN [hist EXCEPT !.baselineFailed = ~BaselineOk(bl.cnt),
                                 !.returned = TRUE, !.active = FALSE]
               ELSE [hist EXCEPT !.baselineFailed = ~BaselineOk(bl.cnt),
                                 !.cycleBaseline = baseline_stress']
  /\ abortedAt' = IF pc' = "loop" THEN abortedAt \cup {Len(startIdx)} ELSE abortedAt
  /\ bl' = InitBl
  /\ UNCHANGED <<ret, connected, state, cycle, test_data, max_stress_seen,
                 shutdown, actuatorVars, pos, clock, safe_target, loc,
                 exportIdx, startIdx>>
  /\ MainStep

\* mutant: a failed reset of the peaks aborts the cycle
AfterResetMut(ok) == IF ok THEN "settle" ELSE "loop"

\* the result of reset_stress_peaks is dropped (line 221)
AfterReset(ok) == "settle"

\* reset_stress_peaks, its result ignored, and the settling sleep (lines 148-158,
\* 221-222); the result is remembered until the descent starts
ResetPeaks ==
  /\ pc = "reset"
  /\ \E ok \in BOOLEAN :
       /\ pc' = AfterReset(ok)
       /\ hist' = [hist EXCEPT !.peakReset = IF ok THEN "ok" ELSE "fail"]
  /\ UNCHANGED <<ret, connected, cycleVars, shutdown, actuatorVars, pos, clock,
                 safe_target, bl, loc, exportIdx, startIdx, abortedAt>>
  /\ MainStep

\* --------------------------------------------------------------- the descent
\* state 3 begins: the state and the limits (lines 225-229)
DescentStart ==
  /\ pc = "settle"
  /\ state' = "descending"
  /\ output_limits' = <<-TEST_SPEED_PWM, TEST_SPEED_PWM>>
  /\ pc' = "descent_entry"
  /\ UNCHANGED <<ret, connected, cycle, test_data, max_stress_seen,
                 baseline_stress, shutdown, setpoint, IO_PWM, IO_DIR, pos, clock,
                 safe_target, bl, loc, histVars>>
  /\ MainStep

\* the setpoint follows the limits, then the loop's locals (lines 230-236)
DescentSetpoint ==
  /\ pc = "descent_entry"
  /\ setpoint' = STROKE_MM - SOFT_MARGIN_MM
  /\ loc' = InitLocals
  /\ pc' = "descent"
  /\ hist' = [hist EXCEPT !.descended = TRUE, !.peakReset = "none"]
  /\ UNCHANGED <<ret, connected, cycleVars, shutdown, output_limits, IO_PWM,
                 IO_DIR, pos, clock, safe_target, bl, exportIdx, startIdx,
                 abortedAt>>
  /\ MainStep

\* mutant: the descent loop does not look at the shutdown flag
LoopCondMut ==
  /\ ~loc.stress_returned_to_zero
  /\ ~loc.no_tooth_detected

\* the descent loop's condition (line 238)
LoopCond ==
  /\ ~loc.stress_returned_to_zero
  /\ ~loc.no_tooth_detected
  /\ ~shutdown

\* mutant: a change exactly at the detection threshold counts as contact
ContactCondMut(stress_change) ==
  stress_change >= STRESS_DETECTION_THRESHOLD * baseline_stress.den

\* tooth contact (line 259)
ContactCond(stress_change) ==
  stress_change > STRESS_DETECTION_THRESHOLD * baseline_stress.den

\* mutant: the one-shot guard of the contact log is dropped
ContactIsNewMut(tooth_contacted) == TRUE

\* the contact is logged and flagged only the first time (line 260)
ContactIsNew(tooth_contacted) == ~tooth_contacted

\* mutant: completion no longer asks for a prior contact
CompletionCondMut(tooth_contacted, stress_change) ==
  Abs(stress_change) < STRESS_ZERO_THRESHOLD * baseline_stress.den

\* stress returned to the baseline after contact (line 265)
CompletionCond(tooth_contacted, stress_change) ==
  /\ tooth_contacted
  /\ Abs(stress_change) < STRESS_ZERO_THRESHOLD * baseline_stress.den

\* mutant: the ceiling alone aborts, whatever load was seen
NoToothCondMut(position, max_stress_change) ==
  position >= MAX_TEST_POSITION_MM

\* ceiling reached without a tooth (line 270)
NoToothCond(position, max_stress_change) ==
  /\ position >= MAX_TEST_POSITION_MM
  /\ max_stress_change < STRESS_DETECTION_THRESHOLD * baseline_stress.den

\* mutant: the peak column is computed from the process reading
SampleMut(timestamp, position, process_stress, peak_stress) ==
  <<timestamp, position, get_stress_change(process_stress),
    get_stress_change(process_stress)>>

\* the row appended for one sample (lines 246-250)
Sample(timestamp, position, process_stress, peak_stress) ==
  <<timestamp, position, get_stress_change(process_stress),
    get_stress_change(peak_stress)>>

\* mutant: a failed read of the peak register goes unnoticed
BothReadMut(process_stress, peak_stress) == process_stress.ok

\* both reads returned a value (line 244)
BothRead(process_stress, peak_stress) == process_stress.ok /\ peak_stress.ok

\* mutant: no time passes between two iterations
AfterSleepMut(t) == t

\* the time after the loop's sleep (line 274); timestamps are read from it (line 249)
AfterSleep(t) == t + 1

\* one iteration of the descent loop (lines 238-274), the process register
\* showing one of vals and the peak register one of peaks, while fewer than
\* ticks iterations have been made
DescentTickOn(vals, peaks, ticks) ==
  /\ pc = "descent"
  /\ LoopCond
  /\ clock < ticks
  /\ \E process_stress \in ReadResults(vals),
        peak_stress \in ReadResults(peaks) :
       LET position == pos
           stress_change == get_stress_change(process_stress.v)
           max2 == Max(loc.max_stress_change, stress_change)
           hit == ContactCond(stress_change)
           logged == hit /\ ContactIsNew(loc.tooth_contacted)
           contacted2 == loc.tooth_contacted \/ hit
           row == Sample(clock, position, process_stress.v, peak_stress.v)
       IN IF BothRead(process_stress, peak_stress)
            THEN /\ test_data' = Append(test_data, row)
                 /\ loc' = [max_stress_change |-> max2,
                            tooth_contacted |-> contacted2,
                            stress_returned_to_zero |->
                              CompletionCond(contacted2, stress_change),
                            no_tooth_detected |-> NoToothCond(position, max2)]
                 /\ hist' = [hist EXCEPT
                      !.log = Append(@, row),
                      !.contactLogs = IF logged THEN @ + 1 ELSE @,
                      !.contactAt = IF logged /\ @ = 0 THEN Len(test_data) + 1 ELSE @,
                      !.completionLogs =
                        IF CompletionCond(contacted2, stress_change) THEN @ + 1 ELSE @,
                      !.completionAt =
                        IF CompletionCond(contacted2, stress_change) /\ @ = 0
                          THEN Len(test_data) + 1 ELSE @,
                      !.lastTick =
                        IF process_stress.ok /\ peak_stress.ok
                          THEN "sampled" ELSE "skipped",
                      !.lastRead = <<process_stress.v, peak_stress.v>>]
            ELSE /\ UNCHANGED <<test_data, loc>>
                 /\ hist' = [hist EXCEPT !.lastTick =
                                IF process_stress.ok /\ peak_stress.ok
                                  THEN "sampled" ELSE "skipped"]
  /\ clock' = AfterSleep(clock)
  /\ UNCHANGED <<pc, ret, connected, state, cycle, max_stress_seen,
                 baseline_stress, shutdown, actuatorVars, pos, safe_target, bl,
                 exportIdx, startIdx, abortedAt>>
  /\ MainStep

DescentTick == DescentTickOn(ProcessVals, PeakVals, MaxTicks)

\* the same loop on longer runs with fewer distinct readings
DescentTickLong == DescentTickOn(LongVals, PeakVals, MaxLongTicks)

\* the loop ends; state 4 begins (lines 238, 276-278)
DescentExit ==
  /\ pc = "descent"
  /\ ~LoopCond
  /\ state' = "returning_home"
  /\ MoveEntry(HOME_POSITION_MM, "cycle_return")
  /\ UNCHANGED <<connected, cycle, test_data, max_stress_seen, baseline_stress,
                 shutdown, IO_PWM, IO_DIR, pos, clock, bl, loc, histVars>>
  /\ MainStep

\* ---------------------------------------------------------------- the export
\* mutant: the export decision forgets the contact flag
ExportGateMut(no_tooth_detected, tooth_contacted) == ~no_tooth_detected

\* the export decision (line 281)
ExportGate(no_tooth_detected, tooth_contacted) ==
  ~no_tooth_detected /\ tooth_contacted

\* mutant: the first row is lost on the way to the sink
ExportedRowsMut(data) == SubSeq(data, 2, Len(data))

\* the rows export_test_data writes (lines 295-310): none for an empty sequence
ExportedRows(data) == data

\* mutant: the index is not advanced
NextCycleMut(c) == c

\* self.cycle += 1 (line 289)
NextCycle(c) == c + 1

\* the return move is over: state 5, the index and Idle (lines 280-291)
AfterReturn ==
  /\ pc = "mtp_hold" /\ ret = "cycle_return"
  /\ IF ExportGate(loc.no_tooth_detected, loc.tooth_contacted)
       THEN /\ exportIdx' = Append(exportIdx, cycle)
            /\ hist' = [hist EXCEPT !.exports = @ + 1,
                                    !.exported = ExportedRows(test_data),
                                    !.returned = TRUE, !.active = FALSE]
       ELSE /\ exportIdx' = exportIdx
            /\ hist' = [hist EXCEPT !.returned = TRUE, !.active = FALSE]
  /\ cycle' = NextCycle(cycle)
  /\ state' = "idle"
  /\ pc' = "loop"
  /\ ret' = "none"
  /\ UNCHANGED <<connected, test_data, max_stress_seen, baseline_stress,
                 shutdown, actuatorVars, pos, clock, safe_target, bl, loc,
                 startIdx, abortedAt>>
  /\ MainStep

\* ---------------------------------------------------------- the control loop
\* mutant: the control task runs wherever the main task is
AtAwaitMut == TRUE

\* mutant: the control task runs only while the shell waits for a command
AtAwaitInputOnly == pc = "input"

\* The main task is suspended at an await (lines 173, 181, 133, 151, 222, 241,
\* 274, 359): only there does the event loop run the control task.
AtAwait ==
  pc \in {"input", "mtp_wait", "mtp_hold", "baseline", "reset", "settle", "descent"}

\* the main task is between the write of the limits and the write of the
\* setpoint (lines 165-167, 229-230)
UpdateInProgress == pc \in {"mtp_entry", "descent_entry"}

\* mutant: no position deadband
PositionDeadbandMut(sp, position) == FALSE

\* mutant: a position deadband wider than the homing tolerance
PositionDeadbandWideMut(sp, position) == Abs(sp - position) < 3 * POSITION_DEADBAND

\* the position deadband (line 190)
PositionDeadband(sp, position) == Abs(sp - position) < POSITION_DEADBAND

\* mutant: the controller's output is not clamped
PidClampMut(value, limits) == value

\* the controller clamps its output to its limits (line 193, limits of lines
\* 102, 165, 176, 229)
PidClamp(value, limits) ==
  IF value > limits[2] * 10 THEN limits[2] * 10
  ELSE IF value < limits[1] * 10 THEN limits[1] * 10
  ELSE value

\* self.pos_pid(pos) (line 193) with Kp = 20, Ki = 0 (line 101) and the
\* derivative term d
pos_pid(position, d) == PidClamp(Kp * (setpoint - position) + d, output_limits)

\* mutant: no magnitude deadband
MagnitudeDeadbandMut(pwm_signed) == FALSE

\* the magnitude deadband (line 195)
MagnitudeDeadband(pwm_signed) == Abs(pwm_signed) < PWM_DEADBAND * 10

\* int(abs(pwm_signed)) (line 199)
Magnitude(pwm_signed) == Abs(pwm_signed) \div 10

\* a tick up to its writes (lines 187-196)
ControlCompute ==
  /\ ctl = "sleep"
  /\ AtAwait
  /\ ~shutdown
  /\ \E d \in DTerms :
       LET dead == PositionDeadband(setpoint, pos)
           raw == IF dead THEN 0 ELSE pos_pid(pos, d)
           pwm_signed == IF MagnitudeDeadband(raw) THEN 0 ELSE raw
       IN tick' = [raw |-> raw, pwm_signed |-> pwm_signed, dead |-> dead,
                   torn |-> UpdateInProgress, limit |-> output_limits[2]]
  /\ ctl' = "write"
  /\ UNCHANGED <<pc, ret, connected, cycleVars, shutdown, actuatorVars, pos,
                 clock, safe_target, bl, loc, histVars, sideVars>>

\* the tick's writes and its sleep (lines 198-201)
ControlWrite ==
  /\ ctl = "write"
  /\ IO_DIR' = IF tick.pwm_signed >= 0 THEN 0 ELSE 1
  /\ IO_PWM' = Magnitude(tick.pwm_signed)
  /\ ctl' = "sleep"
  /\ UNCHANGED <<pc, ret, connected, cycleVars, shutdown, output_limits,
                 setpoint, pos, clock, safe_target, bl, loc, histVars, tick,
                 sideVars>>

\* the loop's condition fails (line 187)
ControlExit ==
  /\ ctl = "sleep"
  /\ AtAwait
  /\ shutdown
  /\ ctl' = "exited"
  /\ UNCHANGED <<pc, ret, connected, cycleVars, shutdown, actuatorVars, pos,
                 clock, safe_target, bl, loc, histVars, tick, sideVars>>

\* ------------------------------------------------- set_max_pwm (ramp-down)
\* the argument check of set_max_pwm (src/position_control.py line 50)
RampValid(max_pwm) == 0 <= max_pwm /\ max_pwm <= MAX_PWM

\* mutant: the ramp goes down two steps at a time
RampNextMut(pwm) == pwm - 2 * RAMP_STEP

\* the next value of range(current_limit, max_pwm, -step) (line 56)
RampNext(pwm) == pwm - RAMP_STEP

\* set_max_pwm is called (lines 48-55): an argument out of range raises
\* ValueError before anything is written
RampCall ==
  /\ ramp.pc = "idle"
  /\ ramp.calls < MaxRampCalls
  /\ \E max_pwm \in RampInputs :
       LET current_limit == Abs(ramp.output_limits[2])
       IN ramp' = IF RampValid(max_pwm)
                    THEN [ramp EXCEPT !.pc = IF max_pwm < current_limit
                                               THEN "loop" ELSE "final",
                                      !.limit = max_pwm, !.pwm = current_limit,
                                      !.from = current_limit, !.valid = TRUE,
                                      !.writes = <<>>, !.calls = @ + 1]
                    ELSE [ramp EXCEPT !.limit = max_pwm, !.from = current_limit,
                                      !.valid = FALSE, !.writes = <<>>,
                                      !.calls = @ + 1]
  /\ UNCHANGED <<pc, ret, connected, cycleVars, shutdown, actuatorVars, pos,
                 clock, safe_target, bl, loc, histVars, ctlVars, data_logger>>

\* one turn of the ramp-down loop (lines 56-58), or its end
RampStep ==
  /\ ramp.pc = "loop"
  /\ ramp' = IF ramp.pwm > ramp.limit
               THEN [ramp EXCEPT !.output_limits = <<-ramp.pwm, ramp.pwm>>,
                                 !.writes = Append(@, ramp.pwm),
                                 !.pwm = RampNext(ramp.pwm)]
               ELSE [ramp EXCEPT !.pc = "final"]
  /\ UNCHANGED <<pc, ret, connected, cycleVars, shutdown, actuatorVars, pos,
                 clock, safe_target, bl, loc, histVars, ctlVars, data_logger>>

\* the final write (line 59)
RampFinal ==
  /\ ramp.pc = "final"
  /\ ramp' = [ramp EXCEPT !.output_limits = <<-ramp.limit, ramp.limit>>,
                          !.writes = Append(@, ramp.limit),
                          !.pwm = 0,
                          !.pc = "idle"]
  /\ UNCHANGED <<pc, ret, connected, cycleVars, shutdown, actuatorVars, pos,
                 clock, safe_target, bl, loc, histVars, ctlVars, data_logger>>

\* ------------------------------------- the data logger (src/strain_logger.py)
\* mutant: a reading below the threshold ends the capture, armed or not
CaptureDoneMut(capturing, process_val) == process_val < THRESHOLD

\* `elif capturing and process_val < THRESHOLD` (line 87)
CaptureDone(capturing, process_val) == capturing /\ process_val < THRESHOLD

\* capture_cycle up to its loop (lines 63-69): a failed peak reset returns, and
\* run calls capture_cycle again
CaptureStart ==
  /\ data_logger.pc = "reset"
  /\ \E ok \in BOOLEAN :
       data_logger' = IF ok
                        THEN [data_logger EXCEPT !.pc = "loop", !.data = <<>>,
                                                 !.capturing = FALSE,
                                                 !.reads = <<>>, !.last = "none"]
                        ELSE [data_logger EXCEPT !.last = "reset_failed"]
  /\ UNCHANGED <<pc, ret, connected, cycleVars, shutdown, actuatorVars, pos,
                 clock, safe_target, bl, loc, histVars, ctlVars, ramp>>

\* one iteration of the capture loop (lines 71-94)
CaptureTick ==
  /\ data_logger.pc = "loop"
  /\ data_logger.t < MaxLogTicks
  /\ \E process_val \in ReadResults(LogVals), peak_val \in ReadResults(PeakVals) :
       LET row == <<data_logger.t, process_val.v, peak_val.v>>
           data2 == Append(data_logger.data, row)
           reads2 == Append(data_logger.reads, <<process_val, peak_val>>)
       IN IF ~process_val.ok \/ ~peak_val.ok
            THEN data_logger' = [data_logger EXCEPT !.t = @ + 1, !.reads = reads2,
                                                    !.last = "failed"]
            ELSE IF process_val.v >= THRESHOLD
              THEN data_logger' = [data_logger EXCEPT !.t = @ + 1, !.reads = reads2,
                                                      !.data = data2,
                                                      !.capturing = TRUE,
                                                      !.last = "sampled"]
              ELSE IF CaptureDone(data_logger.capturing, process_val.v)
                THEN data_logger' =
                       [data_logger EXCEPT !.t = @ + 1, !.reads = reads2,
                                           !.data = data2,
                                           !.exports = Append(@, [cycle |-> data_logger.cycle,
                                                                  data |-> data2]),
                                           !.cycle = @ + 1,
                                           !.pc = "reset",
                                           !.last = "exported"]
                ELSE data_logger' = [data_logger EXCEPT !.t = @ + 1, !.reads = reads2,
                                                        !.data = data2,
                                                        !.last = "sampled"]
  /\ UNCHANGED <<pc, ret, connected, cycleVars, shutdown, actuatorVars, pos,
                 clock, safe_target, bl, loc, histVars, ctlVars, ramp>>

NextLog == CaptureStart \/ CaptureTick

SpecLog == InitOn(PosGrid) /\ [][NextLog]_vars

\* ------------------------------------------------------------ specification
\* every step of the main task but the reads of the baseline, the descent
\* loop's iteration and the motion of the actuator
Shell ==
  \/ Connect
  \/ LoopCheck
  \/ Command
  \/ MoveSetpoint
  \/ MoveWait
  \/ AfterCmdHome
  \/ AfterHome
  \/ BaselineDone
  \/ ResetPeaks
  \/ DescentStart
  \/ DescentSetpoint
  \/ DescentExit
  \/ AfterReturn
  \/ Shutdown

Core == Shell \/ BaselineRead

Others == Core \/ ActuatorMove

Next == Others \/ DescentTick

Spec == Init /\ [][Next]_vars

\* Long runs: several cycles that reach their export in one run.
NextLong == Others \/ DescentTickLong

SpecLong == Init /\ [][NextLong]_vars

\* The end-to-end example: the rod follows the command, one grid position at a
\* time towards the setpoint while the limits let it move.
ActuatorFollow ==
  /\ pc \in {"mtp_wait", "descent"}
  /\ output_limits # <<0, 0>>
  /\ \E p \in E2EGrid :
       /\ IF setpoint > pos THEN p > pos ELSE p < pos
       /\ p # pos
       /\ \A q \in E2EGrid : ~(Min(p, pos) < q /\ q < Max(p, pos))
       /\ pos' = p
  /\ UNCHANGED <<pc, ret, connected, cycleVars, shutdown, actuatorVars, clock,
                 safe_target, bl, loc, histVars>>
  /\ MainStep

DescentTickE2E == DescentTickOn({Load(pos)}, {PeakLoad(pos)}, MaxE2ETicks)

NextE2E == Core \/ ActuatorFollow \/ DescentTickE2E

SpecE2E == InitOn(E2EGrid) /\ [][NextE2E]_vars

\* The baseline taken from an unsteady gauge; no descent sample is read.
BaselineReadBase == BaselineReadOn(BaseVals, TRUE)

NextBase == Shell \/ BaselineReadBase \/ ActuatorMove

SpecBase == Init /\ [][NextBase]_vars

\* Cycles whose baselines differ: an unsteady gauge during the baseline, a
\* loaded one during the descent.
BaselineReadDrift == BaselineReadOn(BaseVals, FALSE)

DescentTickDrift == DescentTickOn(DriftVals, PeakVals, MaxDriftTicks)

NextDrift == Shell \/ BaselineReadDrift \/ ActuatorMove \/ DescentTickDrift

SpecDrift == Init /\ [][NextDrift]_vars

\* The position-control programs' set_max_pwm on its own.
NextRamp == RampCall \/ RampStep \/ RampFinal

SpecRamp == InitOn(PosGrid) /\ [][NextRamp]_vars

\* Descents on which the rod advances to the end of the stroke.
ActuatorMoveEnd == ActuatorMoveOn(EndGrid)

DescentTickEnd == DescentTickOn(LongVals, PeakVals, MaxLongTicks)

NextEnd == Core \/ ActuatorMoveEnd \/ DescentTickEnd

SpecEnd == InitOn(EndGrid) /\ [][NextEnd]_vars

\* The main task together with the control task.
ActuatorMoveCtl == ActuatorMoveOn(CtlGrid)

DescentTickCtl == DescentTickOn(CtlVals, PeakVals, MaxCtlTicks)

NextCtl ==
  \/ Core
  \/ ActuatorMoveCtl
  \/ DescentTickCtl
  \/ ControlCompute
  \/ ControlWrite
  \/ ControlExit

SpecCtl == InitOn(CtlGrid) /\ [][NextCtl]_vars

\* The event loop runs a ready task whenever the running one awaits: the control
\* task, ready 10 ms after its last tick (line 201), gets its turn (strong
\* fairness, the main task leaving and reaching awaits in between), a started
\* tick runs to its sleep, and the main task runs from one await to the next.
\* Nothing makes an await of the main task return.
SpecCtlFair ==
  /\ SpecCtl
  /\ SF_vars(ControlCompute)
  /\ WF_vars(ControlWrite)
  /\ WF_vars(MoveSetpoint)
  /\ WF_vars(DescentSetpoint)
  /\ WF_vars(LoopCheck)

TypeOK ==
  /\ pc \in {"connect", "loop", "input", "mtp_entry", "mtp_wait", "mtp_hold",
             "baseline", "reset", "settle", "descent_entry", "descent",
             "terminated"}
  /\ ctl \in {"off", "sleep", "write", "exited"}
  /\ state \in TestStates
  /\ cycle \in 0..MaxCycles
  /\ shutdown \in BOOLEAN
  /\ pos \in PosGrid \cup CtlGrid \cup E2EGrid \cup EndGrid
  /\ clock \in 0..Max(Max(MaxTicks, MaxLongTicks), Max(MaxE2ETicks, MaxDriftTicks))
  /\ IO_DIR \in {0, 1}
  /\ IO_PWM \in 0..DEFAULT_SPEED_PWM
  /\ Len(test_data) <= clock

\* ------------------------------------------------------------------- claims
\* fields of a row of test_data
RowTime(row) == row[1]
RowPosition(row) == row[2]
RowChange(row) == row[3]
RowPeak(row) == row[4]

DetectNum == STRESS_DETECTION_THRESHOLD * baseline_stress.den
ZeroNum == STRESS_ZERO_THRESHOLD * baseline_stress.den

\* indices of the rows of the current cycle whose change exceeds the detection threshold
ContactRows == {i \in 1..Len(hist.log) : RowChange(hist.log[i]) > DetectNum}

Minimum(S) == CHOOSE x \in S : \A y \in S : x <= y

NoRepeat(seq) == \A i, j \in 1..Len(seq) : i # j => seq[i] # seq[j]
NonDecreasing(seq) == \A i, j \in 1..Len(seq) : i < j => seq[i] <= seq[j]

\* C1 (as claimed): export_test_data is invoked only if contact was flagged
\* and the descent loop ended because the completion condition fired, however
\* the loop ended.
C1_ExportOnlyAfterCompletion ==
  hist.exports > 0 => (loc.tooth_contacted /\ loc.stress_returned_to_zero)

\* C1 (amended): export_test_data is invoked only if contact was flagged and
\* the descent loop did not end by the no-tooth abort: it ended by completion,
\* or the shutdown flag ended it after the contact.
C1_ExportOnlyAfterContact ==
  hist.exports > 0 =>
    /\ loc.tooth_contacted
    /\ ~loc.no_tooth_detected
    /\ (loc.stress_returned_to_zero \/ shutdown)

C1_Witness ==
  hist.exports = 1 /\ loc.tooth_contacted /\ loc.stress_returned_to_zero /\ ~shutdown

\* C2: a cycle whose descent flagged contact and ended by completion invokes
\* export_test_data exactly once, with exactly the rows appended during the
\* descent, in order; the return to home neither drops nor adds a row.
C2_ExportOnceWithDescentRows ==
  /\ state = "returning_home" => test_data = hist.log
  /\ (hist.returned /\ loc.tooth_contacted /\ loc.stress_returned_to_zero) =>
       /\ hist.exports = 1
       /\ hist.exported = hist.log
       /\ test_data = hist.log

C2_Witness ==
  /\ hist.returned /\ loc.tooth_contacted /\ loc.stress_returned_to_zero
  /\ hist.exports = 1
  /\ Len(hist.exported) >= 2

\* C3 (as claimed): a sample read at or beyond the ceiling while the running
\* maximum of the change is at most the detection threshold (equality
\* included) ends the descent by the no-tooth abort on that sample, and the
\* cycle exports nothing.
C3_NoToothAtCeiling ==
  (/\ test_data # <<>>
   /\ RowPosition(test_data[Len(test_data)]) >= MAX_TEST_POSITION_MM
   /\ loc.max_stress_change <= DetectNum) =>
     (loc.no_tooth_detected /\ hist.exports = 0)

\* C4: when establish_baseline fails the cycle aborts before any descent
\* actuation: the state is never Descending, the setpoint stays at home, the
\* limits are never the test speed, no row exists and nothing is exported.
C4_BaselineFailureAborts ==
  hist.baselineFailed =>
    /\ ~hist.descended
    /\ state # "descending"
    /\ setpoint = Clamp(HOME_POSITION_MM)
    /\ setpoint # STROKE_MM - SOFT_MARGIN_MM
    /\ output_limits # <<-TEST_SPEED_PWM, TEST_SPEED_PWM>>
    /\ test_data = <<>>
    /\ hist.log = <<>>
    /\ hist.exports = 0

C4_Witness == hist.baselineFailed /\ hist.returned /\ pc = "input"

\* C5 (as claimed): whenever no invocation of perform_test_cycle is running
\* (before the first one and after each one returned, the baseline-failure
\* abort included) the tester's state is Idle.
C5_IdleOnReturn == ~hist.active => state = "idle"

\* C6 (as claimed): every invocation of perform_test_cycle that returns
\* leaves the cycle index exactly one greater than at entry, on every path.
C6_IndexAdvancesOnEveryPath == hist.returned => cycle = hist.entry + 1

\* C6 (amended): an invocation that returns after its return-to-home phase
\* leaves the index one greater than at entry, export or not; one that
\* aborts on baseline failure leaves the index as it was at entry.
C6_IndexAdvancesUnlessAborted ==
  hist.returned =>
    cycle = IF hist.baselineFailed THEN hist.entry ELSE hist.entry + 1

C6_Witness ==
  hist.returned /\ ~hist.baselineFailed /\ hist.exports = 0 /\ cycle = hist.entry + 1

\* C7 (as claimed): the cycle index never decreases, and no two invocations
\* of export_test_data and no two started cycles use the same index.
C7_IndexNeverReused ==
  /\ NonDecreasing(startIdx)
  /\ \A i \in 1..Len(startIdx) : startIdx[i] <= cycle
  /\ NoRepeat(exportIdx)
  /\ NoRepeat(startIdx)

\* C7 (amended): the cycle index never decreases and no two invocations of
\* export_test_data use the same index; two started cycles show the same
\* index only when the earlier of them aborted on baseline failure.
C7_IndexReusedOnlyAfterAbort ==
  /\ NonDecreasing(startIdx)
  /\ \A i \in 1..Len(startIdx) : startIdx[i] <= cycle
  /\ NoRepeat(exportIdx)
  /\ \A i, j \in 1..Len(startIdx) :
       (i < j /\ startIdx[i] = startIdx[j]) => i \in abortedAt

C7_Witness == Len(exportIdx) = 2 /\ exportIdx[1] < exportIdx[2] /\ cycle = 2

\* C8: the contacted flag is set by the first row whose change is strictly
\* above the detection threshold, stays set for the rest of the cycle, and
\* the contact is logged at most once however many later rows exceed it.
C8_ContactOneShot ==
  /\ loc.tooth_contacted <=> ContactRows # {}
  /\ hist.contactAt = IF ContactRows = {} THEN 0 ELSE Minimum(ContactRows)
  /\ hist.contactLogs = IF ContactRows = {} THEN 0 ELSE 1

C8_Witness ==
  /\ Cardinality(ContactRows) >= 2
  /\ hist.contactLogs = 1
  /\ loc.tooth_contacted

\* C9: completion fires only after contact: the completing row is the first
\* row strictly after the contact row whose |change| is below the zero
\* threshold, it is the last row of the cycle, and there is no completion
\* in a cycle without a contact row before it.
C9_CompletionAfterContact ==
  loc.stress_returned_to_zero =>
    LET n == Len(test_data)
    IN /\ ContactRows # {}
       /\ test_data = hist.log
       /\ Minimum(ContactRows) < n
       /\ Abs(RowChange(test_data[n])) < ZeroNum
       /\ \A i \in (Minimum(ContactRows) + 1)..(n - 1) :
            Abs(RowChange(test_data[i])) >= ZeroNum

C9_Witness ==
  /\ loc.stress_returned_to_zero
  /\ Len(test_data) >= 3
  /\ Minimum(ContactRows) = 1
  /\ RowChange(test_data[2]) < 0

\* C10: completion and the no-tooth abort are mutually exclusive: no state,
\* the one after a sample tick included, has both flags set.
C10_CompletionExcludesNoTooth ==
  ~(loc.stress_returned_to_zero /\ loc.no_tooth_detected)

C10_Witness ==
  /\ loc.stress_returned_to_zero
  /\ ~loc.no_tooth_detected
  /\ RowPosition(test_data[Len(test_data)]) >= MAX_TEST_POSITION_MM

\* rows of the current cycle whose change is inside the zero band
ZeroRows == {j \in 1..Len(hist.log) : Abs(RowChange(hist.log[j])) < ZeroNum}

\* the load trace rose above the detection threshold at one position and was
\* back inside the zero band at a later sample further down
RoseThenFell ==
  \E i \in ContactRows, j \in ZeroRows :
    i < j /\ RowPosition(hist.log[i]) < RowPosition(hist.log[j])

StrictlyIncreasingTimes(rows) ==
  \A i, j \in 1..Len(rows) : i < j => RowTime(rows[i]) < RowTime(rows[j])

\* C11: when the load exceeds the detection threshold at a position P1 and is
\* back below the zero threshold at a position P2 > P1, the cycle has exactly
\* one contact event and exactly one completion event, the contact first, and
\* the recorded samples carry strictly increasing times.
C11_OneContactThenOneCompletion ==
  (hist.descended /\ RoseThenFell) =>
    /\ hist.contactLogs = 1
    /\ hist.completionLogs = 1
    /\ hist.contactAt < hist.completionAt
    /\ hist.contactAt = Minimum(ContactRows)
    /\ StrictlyIncreasingTimes(hist.log)
    /\ StrictlyIncreasingTimes(test_data)

C11_Witness ==
  /\ RoseThenFell
  /\ Len(test_data) = 3
  /\ hist.contactAt = 2
  /\ hist.completionAt = 3
  /\ loc.stress_returned_to_zero

\* the order of the test states within a cycle (lines 212, 216, 225, 277, 290)
StateOrder ==
  {<<"idle", "moving_to_home">>, <<"moving_to_home", "resetting">>,
   <<"resetting", "descending">>, <<"descending", "returning_home">>,
   <<"returning_home", "idle">>}

\* C13 (as claimed): the test state only moves along Idle -> MovingToHome ->
\* Resetting -> Descending -> ReturningHome -> Idle, and no cycle or 'home'
\* command starts while a cycle is in progress.
C13_StrictlySequentialStates ==
  [][/\ state' # state => <<state, state'>> \in StateOrder
     /\ (pc = "input" /\ pc' = "mtp_entry") => ~hist.active]_vars

\* C14: every magnitude the control loop writes is 0 or at least PWM_DEADBAND;
\* a computed command below the floor is never emitted as a nonzero magnitude.
C14_MagnitudeDeadband ==
  /\ IO_PWM = 0 \/ IO_PWM >= PWM_DEADBAND
  /\ (ctl = "write" /\ Abs(tick.raw) < PWM_DEADBAND * 10) => tick.pwm_signed = 0

C14_Witness ==
  /\ ctl = "sleep"
  /\ ~shutdown
  /\ pc = "mtp_wait"
  /\ tick.raw # 0
  /\ Abs(tick.raw) < PWM_DEADBAND * 10
  /\ IO_PWM = 0

\* a step of the control loop that writes the outputs
ControlWriteStep == ctl = "write" /\ ctl' = "sleep"

\* C15: on every control tick where |setpoint - position| < 0.5 mm the
\* magnitude written is 0, whatever the output limits are.
C15_PositionDeadband ==
  [][(ControlWriteStep /\ Abs(setpoint - pos) < POSITION_DEADBAND) => IO_PWM' = 0]_vars

C15_Witness ==
  /\ ctl = "sleep"
  /\ tick.dead
  /\ setpoint # pos
  /\ output_limits = <<-DEFAULT_SPEED_PWM, DEFAULT_SPEED_PWM>>
  /\ IO_PWM = 0

\* C16 (as claimed): after a shutdown request, at any point of the run and at
\* any interleaving of the signal handler with a control tick, the magnitude is
\* 0 when the process exits and no later write leaves it nonzero.
C16_ZeroAfterShutdown ==
  /\ (shutdown /\ pc = "terminated") => IO_PWM = 0
  /\ shutdown => IO_PWM = 0

\* C17 (as claimed): once the shutdown flag is set the control loop exits at
\* its next tick and never writes a nonzero magnitude.
C17_NoNonzeroWriteAfterFlag ==
  [][(ControlWriteStep /\ shutdown) => IO_PWM' = 0]_vars

\* C18: the homing wait and the descent loop read the shutdown flag in every
\* iteration: once the flag is set the wait takes its exit and the descent loop
\* starts no further iteration, whether or not the nominal exit condition
\* (within tolerance, completion, no tooth) holds.
C18_PollsObserveShutdown ==
  /\ (shutdown /\ pc = "mtp_wait") => ENABLED (MoveWait /\ pc' = "mtp_hold")
  /\ (shutdown /\ pc = "descent") => (~ENABLED DescentTick /\ ENABLED DescentExit)

C18_Witness ==
  /\ shutdown
  /\ pc = "descent"
  /\ Len(test_data) = 1
  /\ clock < MaxTicks
  /\ ~loc.stress_returned_to_zero
  /\ ~loc.no_tooth_detected

\* C20: no control tick observes a partially applied setpoint/limit update:
\* a tick never runs between the write of the limits and the write of the
\* setpoint, so it computes with the limits of a move together with that move's
\* target, and with the limits of the descent together with the descent's target.
C20_NoTornUpdate ==
  ctl = "write" =>
    /\ ~tick.torn
    /\ ~UpdateInProgress
    /\ output_limits = <<-DEFAULT_SPEED_PWM, DEFAULT_SPEED_PWM>> => setpoint = safe_target
    /\ output_limits = <<-TEST_SPEED_PWM, TEST_SPEED_PWM>> =>
         setpoint = STROKE_MM - SOFT_MARGIN_MM

C20_Witness ==
  /\ ctl = "write"
  /\ state = "descending"
  /\ output_limits = <<-TEST_SPEED_PWM, TEST_SPEED_PWM>>
  /\ setpoint = STROKE_MM - SOFT_MARGIN_MM
  /\ tick.pwm_signed = TEST_SPEED_PWM * 10

\* the test states of a cycle in progress
CycleStates == {"moving_to_home", "resetting", "descending", "returning_home"}

\* C19: while shutdown is not set, in each of MovingToHome, Resetting,
\* Descending and ReturningHome a control tick is always eventually taken, and
\* a tick can be taken while the descent loop waits for a register read.
C19_ControlKeepsTicking ==
  /\ [](((pc = "descent" /\ ctl = "sleep" /\ ~shutdown)) => ENABLED ControlCompute)
  /\ \A s \in CycleStates :
       (state = s /\ ~shutdown /\ pc # "terminated")
         ~> (ctl = "write" \/ shutdown \/ pc = "terminated")

C19_Witness ==
  /\ state = "descending"
  /\ pc = "descent"
  /\ ~shutdown
  /\ ctl = "write"
  /\ tick.pwm_signed # 0

\* rows of the current cycle sampled at position p
RowsAt(p) == {i \in 1..Len(hist.log) : RowPosition(hist.log[i]) = p}

\* C12: with home 50 mm, stroke 146 mm, thresholds 5.0 and 0.5, ceiling 100 mm
\* and baseline 1.0, a descent that reads 9.0 at 70 mm and 1.2 at 78 mm flags
\* contact at 70 mm with change 8.0 and completion at 78 mm with change 0.2,
\* and the cycle exports exactly once, a peak change of at least 8.0 among the
\* exported samples.
C12_EndToEndExample ==
  /\ \A i \in RowsAt(700) : RowChange(hist.log[i]) = 800 * baseline_stress.den
  /\ \A i \in RowsAt(780) : RowChange(hist.log[i]) = 20 * baseline_stress.den
  /\ RowsAt(700) # {} =>
       /\ hist.contactLogs = 1
       /\ hist.contactAt = Minimum(RowsAt(700))
  /\ (RowsAt(700) # {} /\ RowsAt(780) # {}) =>
       /\ hist.completionLogs = 1
       /\ hist.completionAt = Minimum(RowsAt(780))
       /\ loc.stress_returned_to_zero
       /\ ~loc.no_tooth_detected
  /\ (hist.returned /\ RowsAt(700) # {} /\ RowsAt(780) # {}) =>
       /\ hist.exports = 1
       /\ \E i \in 1..Len(hist.exported) :
            /\ RowPosition(hist.exported[i]) = 700
            /\ RowChange(hist.exported[i]) >= 800 * baseline_stress.den
            /\ RowPeak(hist.exported[i]) >= 800 * baseline_stress.den

C12_Witness ==
  /\ HOME_POSITION_MM = 500 /\ STROKE_MM = 1460 /\ MAX_TEST_POSITION_MM = 1000
  /\ baseline_stress = [num |-> 100, den |-> 1]
  /\ hist.returned
  /\ state = "idle"
  /\ hist.exports = 1
  /\ hist.contactAt > 0
  /\ hist.completionAt > hist.contactAt
  /\ RowPosition(hist.exported[hist.contactAt]) = 700
  /\ RowPosition(hist.exported[hist.completionAt]) = 780

\* C21: a call of set_max_pwm with 0 <= L1 < L0, L0 the limit in force, writes
\* a non-increasing sequence of limits, none below L1, no write more than the
\* decrement away from the limit before it, the last one exactly (-L1, L1).
C21_RampDownMonotone ==
  LET w == ramp.writes
      L0 == ramp.from
      L1 == ramp.limit
      before(i) == IF i = 1 THEN L0 ELSE w[i - 1]
  IN (ramp.valid /\ L1 < L0) =>
       /\ \A i \in 1..Len(w) :
            /\ w[i] >= L1
            /\ w[i] <= before(i)
            /\ before(i) - w[i] <= RAMP_STEP
       /\ w # <<>> => ramp.output_limits = <<-w[Len(w)], w[Len(w)]>>
       /\ ramp.pc = "idle" =>
            /\ w # <<>>
            /\ w[Len(w)] = L1
            /\ ramp.output_limits = <<-L1, L1>>

C21_Witness ==
  /\ ramp.pc = "idle"
  /\ ramp.valid
  /\ ramp.from = 500
  /\ ramp.limit = 250
  /\ ramp.writes = <<500, 400, 300, 250>>

\* C22 (as claimed): every lowering of the output limit by the test-cycle
\* controller goes down in steps of at most the fixed decrement, never in one
\* jump to the lower value.
C22_LimitLoweredInSteps ==
  [][(pc' # pc /\ output_limits'[2] < output_limits[2]) =>
       output_limits[2] - output_limits'[2] <= RAMP_STEP]_vars

\* the successful ones of a sequence of read results, and the sum of their values
Successful(reads) == SelectSeq(reads, LAMBDA r : r.ok)

RECURSIVE SumOf(_)
SumOf(reads) == IF reads = <<>> THEN 0 ELSE Head(reads).v + SumOf(Tail(reads))

\* establish_baseline returns
BaselineReturns == pc = "baseline" /\ pc' # "baseline"

\* C23: establish_baseline issues exactly BASELINE_SAMPLES reads, succeeds if
\* and only if at least one of them succeeded, on success stores the mean of
\* exactly the successful readings, and on failure leaves the stored baseline
\* unchanged.
C23_BaselineIsMeanOfSuccessful ==
  [][BaselineReturns =>
       LET good == Successful(bl.reads)
       IN /\ Len(bl.reads) = BASELINE_SAMPLES
          /\ (pc' = "reset") <=> (Len(good) > 0)
          /\ Len(good) > 0 =>
               /\ baseline_stress'.den > 0
               /\ baseline_stress'.num * Len(good) = SumOf(good) * baseline_stress'.den
          /\ Len(good) = 0 => (baseline_stress' = baseline_stress /\ pc' = "loop")]_vars

C23_Witness ==
  /\ pc = "reset"
  /\ hist.active
  /\ ~hist.baselineFailed
  /\ baseline_stress = [num |-> 110, den |-> 1]

\* C24: a failed reset of the peak-hold register does not abort the cycle:
\* once establish_baseline succeeded, the cycle goes on to the reset and from
\* it to Descending, whether reset_stress_peaks returned ok or fail.
C24_PeakResetFailureNonFatal ==
  [][/\ (BaselineReturns /\ bl.cnt > 0) => pc' = "reset"
     /\ (pc = "reset" /\ pc' # pc) =>
          (pc' = "settle" /\ hist'.peakReset \in {"ok", "fail"})
     /\ (pc = "settle" /\ pc' # pc) =>
          (pc' = "descent_entry" /\ state' = "descending")]_vars

C24_Witness ==
  /\ state = "descending"
  /\ pc = "descent_entry"
  /\ hist.peakReset = "fail"
  /\ ~hist.baselineFailed

\* an iteration of the descent loop
DescentIteration == pc = "descent" /\ clock' # clock

\* C25: a descent tick in which the process read or the peak read fails
\* appends no sample, leaves the contacted, completion and no-tooth flags and
\* the running maximum unchanged, raises nothing, and the loop goes on.
C25_FailedReadSkipsTick ==
  [][(DescentIteration /\ hist'.lastTick = "skipped") =>
       /\ test_data' = test_data
       /\ loc' = loc
       /\ pc' = "descent"
       /\ state' = "descending"
       /\ LoopCond']_vars

C25_Witness ==
  /\ pc = "descent"
  /\ hist.lastTick = "skipped"
  /\ Len(test_data) = 1
  /\ loc.tooth_contacted
  /\ clock = 2

\* C26: when the connection fails at startup the session ends without a cycle:
\* the control loop is never started, no command is accepted and
\* perform_test_cycle is never invoked.
C26_ConnectFailureEndsSession ==
  (pc # "connect" /\ ~connected) =>
    /\ pc = "terminated"
    /\ ctl = "off"
    /\ startIdx = <<>>
    /\ state = "idle"
    /\ test_data = <<>>
    /\ exportIdx = <<>>
    /\ IO_PWM = 0

C26_Witness ==
  /\ pc = "terminated"
  /\ ~connected
  /\ ~shutdown
  /\ ctl = "off"

\* C27 (as claimed): stop_actuator sets the magnitude to 0 and the limits to
\* (0, 0), and while the limits stay (0, 0) every write of the control loop is
\* a magnitude 0, whatever the setpoint and the position are.
C27_StoppedMeansZeroWrites ==
  [][/\ (shutdown' /\ ~shutdown) => (IO_PWM' = 0 /\ output_limits' = <<0, 0>>)
     /\ (ControlWriteStep /\ output_limits = <<0, 0>>) => IO_PWM' = 0]_vars

\* test_data after a step holds test_data before it as a prefix
Extended == 
  /\ Len(test_data') = Len(test_data) + 1
  /\ SubSeq(test_data', 1, Len(test_data)) = test_data

\* C28: every sample appended during a descent holds the process and the peak
\* reading minus the baseline established in the Resetting phase of the same
\* cycle; the baseline changes nowhere but in establish_baseline, and a sample
\* once appended is never modified (the sequence is only emptied when the next
\* cycle starts).
C28_SamplesAgainstCycleBaseline ==
  [][/\ (DescentIteration /\ hist'.lastTick = "sampled") =>
          LET row == test_data'[Len(test_data')]
              b == hist.cycleBaseline
          IN /\ Extended
             /\ baseline_stress = b
             /\ RowPosition(row) = pos
             /\ RowChange(row) = hist'.lastRead[1] * b.den - b.num
             /\ RowPeak(row) = hist'.lastRead[2] * b.den - b.num
     /\ pc # "baseline" => baseline_stress' = baseline_stress
     /\ test_data' # test_data =>
          \/ Extended /\ pc = "descent"
          \/ test_data' = <<>> /\ pc = "input"]_vars

C28_Witness ==
  /\ cycle = 1
  /\ pc = "descent"
  /\ hist.lastTick = "sampled"
  /\ hist.cycleBaseline = [num |-> 115, den |-> 1]
  /\ test_data = <<<<1, 1000, 485, 785>>>>

\* move_to_position leaves its wait
MoveWaitLeft == pc = "mtp_wait" /\ pc' = "mtp_hold"

\* C29: move_to_position sets the setpoint to its target clamped to
\* [0, STROKE_MM], leaves its wait only when the position read is within 1.0 mm
\* of that clamped target or shutdown is set, and returns with the limits at
\* (0, 0) and the magnitude at 0.
C29_MoveToPosition ==
  [][/\ \A t \in MoveTargets :
          Clamp(t) = IF t < 0 THEN 0 ELSE IF t > STROKE_MM THEN STROKE_MM ELSE t
     /\ (pc = "mtp_entry" /\ pc' # pc) =>
          (pc' = "mtp_wait" /\ setpoint' = Clamp(HOME_POSITION_MM)
             /\ safe_target = Clamp(HOME_POSITION_MM))
     /\ MoveWaitLeft =>
          /\ Abs(pos - setpoint) <= HOME_TOLERANCE \/ shutdown
          /\ output_limits' = <<0, 0>>
          /\ IO_PWM' = 0
     /\ (pc = "mtp_hold" /\ pc' # pc) => (output_limits = <<0, 0>> /\ IO_PWM = 0)]_vars

C29_Witness ==
  /\ pc = "mtp_hold"
  /\ ~shutdown
  /\ ctl = "sleep"
  /\ setpoint = HOME_POSITION_MM
  /\ pos = 495
  /\ output_limits = <<0, 0>>
  /\ IO_PWM = 0
  /\ tick.raw # 0

\* C30: every magnitude the control loop writes is an integer in [0, 1000] and
\* does not exceed the output limit its tick computed under: at most 300 in any
\* state, at most 200 while Descending.
C30_MagnitudeWithinLimit ==
  [][ControlWriteStep =>
       /\ IO_PWM' \in 0..MAX_PWM
       /\ IO_PWM' <= tick.limit
       /\ IO_PWM' <= DEFAULT_SPEED_PWM
       /\ state = "descending" => IO_PWM' <= TEST_SPEED_PWM
       /\ tick.limit = 0 => IO_PWM' = 0]_vars

C30_Witness ==
  /\ ctl = "sleep"
  /\ ~shutdown
  /\ state = "descending"
  /\ pc = "descent"
  /\ tick.limit = TEST_SPEED_PWM
  /\ IO_PWM = TEST_SPEED_PWM

\* the running maximum of process_change over the samples of the current
\* cycle, starting from 0.0 as the code's max_stress_change does
RunningMaxChange ==
  LET S == {0} \cup {RowChange(hist.log[i]) : i \in 1..Len(hist.log)}
  IN CHOOSE m \in S : \A y \in S : y <= m

\* C31: at every point of a descent the contacted flag is true if and only if
\* the running maximum of process_change over the cycle's successful samples
\* is strictly greater than the detection threshold; the loop's own maximum is
\* that running maximum.
C31_ContactedIffMaxAboveThreshold ==
  state = "descending" /\ pc = "descent" =>
    /\ loc.tooth_contacted <=> RunningMaxChange > DetectNum
    /\ loc.max_stress_change = RunningMaxChange
    /\ hist.log = test_data

C31_Witness ==
  /\ pc = "descent"
  /\ Len(test_data) = 2
  /\ RowChange(test_data[1]) = DetectNum
  /\ RowChange(test_data[2]) > DetectNum
  /\ loc.tooth_contacted
  /\ hist.contactAt = 2

\* no operator command is executing: the shell is before its first command or
\* between two commands (lines 356-359)
NoCommandExecuting == pc \in {"loop", "input"}

\* C32: whenever no operator command is executing, after any sequence of test,
\* home, pos, help and unknown commands and after cycles that aborted on the
\* baseline, the controller's output limits are (0,0), the magnitude last
\* written is 0, and a tick of the control loop in progress is about to write
\* magnitude 0.
C32_IdleLimitsZero ==
  NoCommandExecuting =>
    /\ output_limits = <<0, 0>>
    /\ IO_PWM = 0
    /\ ctl = "write" => (tick.limit = 0 /\ Magnitude(tick.pwm_signed) = 0)

C32_Witness ==
  /\ pc = "input"
  /\ ~shutdown
  /\ ctl = "write"
  /\ Len(startIdx) = 1
  /\ abortedAt = {1}
  /\ pos = 495
  /\ setpoint = HOME_POSITION_MM

\* C33 (as claimed): once the shutdown flag has been set, no step of the test
\* cycle raises the controller's output limits above (0,0) or moves the
\* setpoint to a new target.
C33_NoMotionCommandAfterShutdown ==
  [][shutdown => (output_limits' = <<0, 0>> /\ setpoint' = setpoint)]_vars

\* C34 (as claimed): the descent ends without shutdown for every load trace.
\* Were that so, no iteration with successful reads and the rod at the end of
\* the stroke could leave the loop running with its flags and running maximum
\* as they were: the same readings, repeated, would keep it running for ever.
C34_DescentMakesProgress ==
  [][(/\ DescentIteration
      /\ ~shutdown
      /\ hist'.lastTick = "sampled"
      /\ pos = STROKE_MM - SOFT_MARGIN_MM)
       => (~LoopCond' \/ loc' # loc)]_vars

\* the proportional command of the controller for an error, clamped to the
\* limits of a move at the default speed (lines 101, 165), in tenths
ProportionalCommand(error) ==
  LET p == Kp * error
      hi == DEFAULT_SPEED_PWM * 10
  IN IF p > hi THEN hi ELSE IF p < -hi THEN -hi ELSE p

CycleStarts == Len(startIdx') = Len(startIdx) + 1
ExportInvoked == Len(exportIdx') = Len(exportIdx) + 1

\* C36: the sample sequence is emptied at the start of every cycle and grows
\* only in the Descending state, one sample at a time, so the sequence handed
\* to export_test_data holds the samples of its own cycle's descent and no
\* sample recorded in an earlier cycle.
C36_NoSampleFromEarlierCycle ==
  [][/\ CycleStarts => test_data' = <<>>
     /\ (test_data' # test_data /\ ~CycleStarts) =>
          /\ state = "descending" /\ state' = "descending"
          /\ Len(test_data') = Len(test_data) + 1
          /\ SubSeq(test_data', 1, Len(test_data)) = test_data
     /\ ExportInvoked =>
          /\ hist'.exported = test_data
          /\ test_data = hist.log]_vars

C36_Witness ==
  /\ pc = "loop"
  /\ startIdx = <<0, 1>>
  /\ exportIdx = <<1>>
  /\ Len(hist.exported) = 2
  /\ RowTime(hist.exported[1]) >= 1
  /\ hist.exported = test_data

\* the pairs of reads of the data logger in which both reads succeeded, as the
\* rows they make: position in the sequence of iterations, process, peak
LogSuccessful(reads, first) ==
  LET F[i \in 0..Len(reads)] ==
        IF i = 0 THEN <<>>
        ELSE IF reads[i][1].ok /\ reads[i][2].ok
          THEN Append(F[i - 1], <<first + i - 1, reads[i][1].v, reads[i][2].v>>)
          ELSE F[i - 1]
  IN F[Len(reads)]

\* steps of capture_cycle: an iteration of its loop, an invocation of
\* export_data, the return after the loop
LogIteration == data_logger.pc = "loop" /\ data_logger'.t = data_logger.t + 1
LogExport == Len(data_logger'.exports) = Len(data_logger.exports) + 1
LogCaptureCompleted == data_logger.pc = "loop" /\ data_logger'.pc = "reset"

\* C37: export_data is invoked exactly once per completed capture, and only
\* after a successful sample at or above THRESHOLD and a later successful
\* sample below it; the exported data holds every successful sample since the
\* peak reset; the index grows by exactly one per export and not otherwise; an
\* iteration with a failed read appends nothing and changes neither the
\* capturing flag nor the index.
C37_CaptureCycle ==
  [][/\ LogCaptureCompleted <=> LogExport
     /\ Len(data_logger'.exports) \in {Len(data_logger.exports),
                                       Len(data_logger.exports) + 1}
     /\ LogExport =>
          LET e == data_logger'.exports[Len(data_logger'.exports)]
              n == Len(e.data)
          IN /\ e.cycle = data_logger.cycle
             /\ data_logger'.cycle = data_logger.cycle + 1
             /\ e.data = LogSuccessful(data_logger'.reads,
                                       data_logger'.t - Len(data_logger'.reads))
             /\ n >= 2
             /\ e.data[n][2] < THRESHOLD
             /\ \E i \in 1..(n - 1) : e.data[i][2] >= THRESHOLD
     /\ ~LogExport => data_logger'.cycle = data_logger.cycle
     /\ (LogIteration /\ ~(data_logger'.reads[Len(data_logger'.reads)][1].ok
                            /\ data_logger'.reads[Len(data_logger'.reads)][2].ok)) =>
          /\ data_logger'.data = data_logger.data
          /\ data_logger'.capturing = data_logger.capturing
          /\ data_logger'.cycle = data_logger.cycle
          /\ data_logger'.pc = "loop"
          /\ data_logger'.exports = data_logger.exports]_vars

C37_Witness ==
  /\ data_logger.pc = "reset"
  /\ data_logger.cycle = 1
  /\ Len(data_logger.exports) = 1
  /\ Len(data_logger.reads) = 4
  /\ Len(data_logger.exports[1].data) = 3
  /\ data_logger.exports[1].data[1][2] < THRESHOLD
  /\ data_logger.exports[1].data[2][2] = THRESHOLD
  /\ ~data_logger.reads[3][1].ok

====
